---- MODULE Spec2Model ----
(***************************************************************************)
(* A model of the Asa interpreter: the token-level parser of               *)
(* src/src/parser.rs and the tree-walking evaluator of                     *)
(* src/src/interpreter.rs.  The evaluator is the recursive operator exec,  *)
(* one arm per operator; the interpreter's state (function table, call     *)
(* stack) is threaded through it as the record st.                         *)
(***************************************************************************)
EXTENDS Integers, Sequences, FiniteSets, TLC

(***************************************************************************)
(* Bounds of the model.                                                    *)
(***************************************************************************)
\* number of exec / start_main calls made on one Interpreter
MaxCalls == 2

\* i32::MIN and i32::MAX
I32_MAX == 2147483647
I32_MIN == -2147483647 - 1

(***************************************************************************)
(* Byte strings.  A Vec<u8> is modelled by a string; InvalidUtf8Bytes are  *)
(* the byte strings of the model that are not valid UTF-8 ("#FF" stands    *)
(* for the single byte 0xFF).                                              *)
(***************************************************************************)
InvalidUtf8Bytes == {"#FF"}

\* String::from_utf8: fails on a byte string that is not valid UTF-8
from_utf8_ok(bytes) == bytes \notin InvalidUtf8Bytes

\* String::from_utf8_lossy: an invalid byte becomes U+FFFD
from_utf8_lossy(bytes) == IF bytes \in InvalidUtf8Bytes THEN "U+FFFD" ELSE bytes

(***************************************************************************)
(* parser.rs: enum Node.  All nodes are records of one shape so that any   *)
(* two can be compared; a field a variant does not have holds a default.   *)
(* name holds the Vec<u8> of FunctionDefine/MathExpression/FunctionCall    *)
(* and the value bytes of Identifier/Comment.                              *)
(***************************************************************************)
Node(kind, name, children, num, bool, str) ==
    [kind |-> kind, name |-> name, children |-> children,
     num |-> num, bool |-> bool, str |-> str]

Node_Program(children) == Node("Program", "", children, 0, FALSE, "")
Node_Statement(children) == Node("Statement", "", children, 0, FALSE, "")
Node_FunctionDefine(name, children) == Node("FunctionDefine", name, children, 0, FALSE, "")
Node_FunctionArguments(children) == Node("FunctionArguments", "", children, 0, FALSE, "")
Node_FunctionStatements(children) == Node("FunctionStatements", "", children, 0, FALSE, "")
Node_Expression(children) == Node("Expression", "", children, 0, FALSE, "")
Node_MathExpression(name, children) == Node("MathExpression", name, children, 0, FALSE, "")
Node_FunctionCall(name, children) == Node("FunctionCall", name, children, 0, FALSE, "")
Node_VariableDefine(children) == Node("VariableDefine", "", children, 0, FALSE, "")
Node_FunctionReturn(children) == Node("FunctionReturn", "", children, 0, FALSE, "")
Node_Number(value) == Node("Number", "", <<>>, value, FALSE, "")
Node_Bool(value) == Node("Bool", "", <<>>, 0, value, "")
Node_Identifier(value) == Node("Identifier", value, <<>>, 0, FALSE, "")
Node_String(value) == Node("String", "", <<>>, 0, FALSE, value)
Node_Comment(value) == Node("Comment", value, <<>>, 0, FALSE, "")
Node_Null == Node("Null", "", <<>>, 0, FALSE, "")

(***************************************************************************)
(* The token stream the parser reads: a sequence of tokens, each with its  *)
(* kind and its lexeme bytes; digits holds the lexeme of a Digit token as  *)
(* the list of its decimal digits.  White space is not part of the stream. *)
(***************************************************************************)
Tok(kind, lexeme) == [kind |-> kind, lexeme |-> lexeme, digits |-> <<>>]
TokDigit(lexeme, digits) == [kind |-> "Digit", lexeme |-> lexeme, digits |-> digits]

\* IResult<Tokens, _>: Ok((rest, out)), Err(nom::Err::Error), or a panic
POk(rest, out) == [st |-> "Ok", rest |-> rest, out |-> out]
PErr == [st |-> "Err", rest |-> <<>>, out |-> Node_Null]
PPanic == [st |-> "Panic", rest |-> <<>>, out |-> Node_Null]

\* the token-matching primitive behind every t_* helper: the first token, if
\* it is of the kind asked for
check_token(kind, input) ==
    IF Len(input) > 0 /\ Head(input).kind = kind THEN POk(Tail(input), Head(input)) ELSE PErr

t_alpha(input) == check_token("Alpha", input)
t_digit(input) == check_token("Digit", input)
t_true(input) == check_token("True", input)
t_false(input) == check_token("False", input)
t_left_paren(input) == check_token("LeftParen", input)
t_right_paren(input) == check_token("RightParen", input)
t_left_curly(input) == check_token("LeftCurly", input)
t_right_curly(input) == check_token("RightCurly", input)
t_quote(input) == check_token("Quote", input)
t_slash(input) == check_token("Slash", input)
t_comma(input) == check_token("Comma", input)
t_semicolon(input) == check_token("Semicolon", input)
t_let(input) == check_token("Let", input)
t_fn(input) == check_token("Fn", input)
t_return(input) == check_token("Return", input)
t_plus(input) == check_token("Plus", input)
t_dash(input) == check_token("Dash", input)
t_equal(input) == check_token("Equal", input)

\* `LET x == e IN F(x)` with e evaluated once, whatever the number of uses of x
Bind(e, F(_)) == CHOOSE y \in {F(x) : x \in {e}} : TRUE

\* nom::branch::alt over two results: the first that is not an Error
Alt(r1, r2) == Bind(r1, LAMBDA r : IF r.st # "Err" THEN r ELSE r2)

RECURSIVE t_alphanumeric0(_)
\* many0(alt((t_alpha, t_digit))), the lexemes already concatenated
t_alphanumeric0(input) ==
    Bind(Alt(t_alpha(input), t_digit(input)), LAMBDA tk :
        IF tk.st # "Ok" THEN POk(input, "")
        ELSE Bind(t_alphanumeric0(tk.rest), LAMBDA more :
                 POk(more.rest, tk.out.lexeme \o more.out)))

RECURSIVE t_alpha0(_)
\* many0(t_alpha), the lexemes already concatenated
t_alpha0(input) ==
    Bind(t_alpha(input), LAMBDA tk :
        IF tk.st # "Ok" THEN POk(input, "")
        ELSE Bind(t_alpha0(tk.rest), LAMBDA more :
                 POk(more.rest, tk.out.lexeme \o more.out)))

identifier(input) ==
    Bind(t_alpha(input), LAMBDA first :
        IF first.st # "Ok" THEN first
        ELSE Bind(t_alphanumeric0(first.rest), LAMBDA rest :
                 POk(rest.rest, Node_Identifier(first.out.lexeme \o rest.out))))

RECURSIVE ManyDigits(_)
\* many0(t_digit), the digits of the lexemes in order
ManyDigits(input) ==
    Bind(t_digit(input), LAMBDA tk :
        IF tk.st # "Ok" THEN POk(input, <<>>)
        ELSE Bind(ManyDigits(tk.rest), LAMBDA more :
                 POk(more.rest, tk.out.digits \o more.out)))

RECURSIVE ParseDecimal(_, _)
\* str::parse::<i32> of a digit string: its value, or -1 when it exceeds i32::MAX
ParseDecimal(digits, acc) ==
    IF digits = <<>> THEN acc
    ELSE IF acc > (I32_MAX - Head(digits)) \div 10 THEN -1
    ELSE ParseDecimal(Tail(digits), acc * 10 + Head(digits))

number(input) ==
    Bind(ManyDigits(input), LAMBDA digits :
        IF digits.out = <<>> THEN PErr
        ELSE Bind(ParseDecimal(digits.out, 0), LAMBDA parsed_value :
                 IF parsed_value < 0 THEN PPanic
                 ELSE POk(digits.rest, Node_Number(parsed_value))))

boolean(input) ==
    Bind(Alt(t_true(input), t_false(input)), LAMBDA token :
        IF token.st # "Ok" THEN token
        ELSE POk(token.rest, Node_Bool(token.out.kind = "True")))

string(input) ==
    Bind(t_quote(input), LAMBDA q1 :
        IF q1.st # "Ok" THEN q1
        ELSE Bind(t_alphanumeric0(q1.rest), LAMBDA body :
                 Bind(t_quote(body.rest), LAMBDA q2 :
                     IF q2.st # "Ok" THEN q2 ELSE POk(q2.rest, Node_String(body.out)))))

value(input) == Alt(number(input), Alt(identifier(input), boolean(input)))

math_expression(input) ==
    Bind(value(input), LAMBDA leftside :
        IF leftside.st # "Ok" THEN leftside ELSE
        Bind(Alt(t_plus(leftside.rest), t_dash(leftside.rest)), LAMBDA operator :
            IF operator.st # "Ok" THEN operator ELSE
            Bind(value(operator.rest), LAMBDA rightside :
                IF rightside.st # "Ok" THEN rightside ELSE
                POk(rightside.rest,
                    Node_MathExpression(IF operator.out.kind = "Plus" THEN "add" ELSE "sub",
                                        <<leftside.out, rightside.out>>)))))

RECURSIVE expression(_)
RECURSIVE ManyOtherArg(_)
RECURSIVE ManyArguments(_)

other_arg(input) ==
    Bind(t_comma(input), LAMBDA c : IF c.st # "Ok" THEN c ELSE expression(c.rest))

\* many0(other_arg)
ManyOtherArg(input) ==
    Bind(other_arg(input), LAMBDA a :
        IF a.st = "Panic" THEN a ELSE
        IF a.st = "Err" THEN POk(input, <<>>) ELSE
        Bind(ManyOtherArg(a.rest), LAMBDA more :
            IF more.st # "Ok" THEN more ELSE POk(more.rest, <<a.out>> \o more.out)))

arguments(input) ==
    Bind(expression(input), LAMBDA arg :
        IF arg.st # "Ok" THEN arg ELSE
        Bind(ManyOtherArg(arg.rest), LAMBDA others :
            IF others.st # "Ok" THEN others
            ELSE POk(others.rest, Node_FunctionArguments(<<arg.out>> \o others.out))))

\* many0(arguments)
ManyArguments(input) ==
    Bind(arguments(input), LAMBDA a :
        IF a.st = "Panic" THEN a ELSE
        IF a.st = "Err" THEN POk(input, <<>>) ELSE
        Bind(ManyArguments(a.rest), LAMBDA more :
            IF more.st # "Ok" THEN more ELSE POk(more.rest, <<a.out>> \o more.out)))

function_call(input) ==
    Bind(identifier(input), LAMBDA fxn_name :
        IF fxn_name.st # "Ok" THEN fxn_name ELSE
        Bind(t_left_paren(fxn_name.rest), LAMBDA lp :
            IF lp.st # "Ok" THEN lp ELSE
            Bind(ManyArguments(lp.rest), LAMBDA args :
                IF args.st # "Ok" THEN args ELSE
                Bind(t_right_paren(args.rest), LAMBDA rp :
                    IF rp.st # "Ok" THEN rp ELSE
                    POk(rp.rest,
                        Node_FunctionCall(fxn_name.out.name,
                            IF args.out = <<>> THEN <<Node_FunctionArguments(<<>>)>>
                            ELSE args.out))))))

expression(input) ==
    Bind(Alt(boolean(input), Alt(math_expression(input), Alt(function_call(input),
         Alt(number(input), Alt(string(input), identifier(input)))))), LAMBDA result :
        IF result.st # "Ok" THEN result
        ELSE POk(result.rest, Node_Expression(<<result.out>>)))

variable_define(input) ==
    Bind(t_let(input), LAMBDA l :
        IF l.st # "Ok" THEN l ELSE
        Bind(identifier(l.rest), LAMBDA variable :
            IF variable.st # "Ok" THEN variable ELSE
            Bind(t_equal(variable.rest), LAMBDA e :
                IF e.st # "Ok" THEN e ELSE
                Bind(expression(e.rest), LAMBDA expr :
                    IF expr.st # "Ok" THEN expr ELSE
                    POk(expr.rest, Node_VariableDefine(<<variable.out, expr.out>>))))))

function_return(input) ==
    Bind(t_return(input), LAMBDA r :
        IF r.st # "Ok" THEN r ELSE
        Bind(Alt(function_call(r.rest), Alt(expression(r.rest), identifier(r.rest))),
             LAMBDA result :
                IF result.st # "Ok" THEN result
                ELSE POk(result.rest, Node_FunctionReturn(<<result.out>>))))

statement(input) ==
    Bind(Alt(variable_define(input), Alt(expression(input), function_return(input))),
         LAMBDA result :
            IF result.st # "Ok" THEN result ELSE
            Bind(t_semicolon(result.rest), LAMBDA semi :
                IF semi.st # "Ok" THEN semi ELSE POk(semi.rest, result.out)))

RECURSIVE ManyStatement(_)
\* many0(statement)
ManyStatement(input) ==
    Bind(statement(input), LAMBDA s :
        IF s.st = "Panic" THEN s ELSE
        IF s.st = "Err" THEN POk(input, <<>>) ELSE
        Bind(ManyStatement(s.rest), LAMBDA more :
            IF more.st # "Ok" THEN more ELSE POk(more.rest, <<s.out>> \o more.out)))

\* function_define, from the (many1) statements on
FunctionDefineBody(name, args, input) ==
    Bind(ManyStatement(input), LAMBDA statements :
        IF statements.st # "Ok" THEN statements ELSE
        IF statements.out = <<>> THEN PErr ELSE
        Bind(t_right_curly(statements.rest), LAMBDA rc :
            IF rc.st # "Ok" THEN rc ELSE
            POk(rc.rest,
                Node_FunctionDefine(name,
                    <<IF args = <<>> THEN Node_FunctionArguments(<<>>) ELSE args[1],
                      Node_FunctionStatements(statements.out)>>))))

function_define(input) ==
    Bind(t_fn(input), LAMBDA f :
        IF f.st # "Ok" THEN f ELSE
        Bind(identifier(f.rest), LAMBDA fxn_name :
            IF fxn_name.st # "Ok" THEN fxn_name ELSE
            Bind(t_left_paren(fxn_name.rest), LAMBDA lp :
                IF lp.st # "Ok" THEN lp ELSE
                Bind(ManyArguments(lp.rest), LAMBDA args :
                    IF args.st # "Ok" THEN args ELSE
                    Bind(t_right_paren(args.rest), LAMBDA rp :
                        IF rp.st # "Ok" THEN rp ELSE
                        Bind(t_left_curly(rp.rest), LAMBDA lc :
                            IF lc.st # "Ok" THEN lc
                            ELSE FunctionDefineBody(fxn_name.out.name, args.out, lc.rest)))))))

comment(input) ==
    Bind(t_slash(input), LAMBDA s1 :
        IF s1.st # "Ok" THEN s1 ELSE
        Bind(t_slash(s1.rest), LAMBDA s2 :
            IF s2.st # "Ok" THEN s2 ELSE
            Bind(t_alpha0(s2.rest), LAMBDA alpha_tokens :
                POk(alpha_tokens.rest, Node_Comment(alpha_tokens.out)))))

RECURSIVE ManyTopLevel(_)
\* many0(alt((function_define, expression, statement, string, boolean, number)))
ManyTopLevel(input) ==
    Bind(Alt(function_define(input), Alt(expression(input), Alt(statement(input),
         Alt(string(input), Alt(boolean(input), number(input)))))), LAMBDA n :
        IF n.st = "Panic" THEN n ELSE
        IF n.st = "Err" THEN POk(input, <<>>) ELSE
        Bind(ManyTopLevel(n.rest), LAMBDA more :
            IF more.st # "Ok" THEN more ELSE POk(more.rest, <<n.out>> \o more.out)))

\* program: many1 of the top-level alternatives
program(input) ==
    Bind(ManyTopLevel(input), LAMBDA result :
        IF result.st # "Ok" THEN result ELSE
        IF result.out = <<>> THEN PErr ELSE
        POk(result.rest, Node_Program(result.out)))

(***************************************************************************)
(* interpreter.rs: enum Value, and Result<Value, AsaErrorKind>.  A panic   *)
(* (unreachable!(), an index out of range, an arithmetic panic) is the     *)
(* third outcome: it unwinds through every caller.                         *)
(***************************************************************************)
Value_String(s) == [t |-> "String", n |-> 0, b |-> FALSE, s |-> s]
Value_Number(n) == [t |-> "Number", n |-> n, b |-> FALSE, s |-> ""]
Value_Bool(b) == [t |-> "Bool", n |-> 0, b |-> b, s |-> ""]

Ok(v) == [tag |-> "Ok", val |-> v, err |-> ""]
Err(e) == [tag |-> "Err", val |-> Value_Bool(FALSE), err |-> e]
Panic(why) == [tag |-> "Panic", val |-> Value_Bool(FALSE), err |-> why]

\* AsaErrorKind::UndefinedFunction and AsaErrorKind::Generic(message)
UndefinedFunction == "UndefinedFunction"
Generic(msg) == "Generic: " \o msg

(***************************************************************************)
(* Frames and the function table: HashMap<String, _> as a function whose   *)
(* domain is the set of keys.                                              *)
(***************************************************************************)
EmptyMap == <<>>
MapInsert(m, k, v) == [x \in (DOMAIN m) \cup {k} |-> IF x = k THEN v ELSE m[x]]

Last(s) == s[Len(s)]
ButLast(s) == SubSeq(s, 1, Len(s) - 1)

(***************************************************************************)
(* The record threaded through exec:                                       *)
(*   functions, stack   the Interpreter's fields                           *)
(*   checked            whether the build has overflow checks (debug)      *)
(*   lvl, trace         history: the nesting depth of exec and the list of *)
(*                      its entries and returns, each with the             *)
(*                      interpreter's fields at that moment                *)
(***************************************************************************)
NoRes == [tag |-> "None", val |-> Value_Bool(FALSE), err |-> ""]

Event(ev, node, res, st) ==
    [ev |-> ev, lvl |-> st.lvl, node |-> node, res |-> res,
     stack |-> st.stack, functions |-> st.functions]

Ret(res, st) == [res |-> res, st |-> st]

RECURSIVE exec(_, _)
RECURSIVE ProgramLoop(_, _, _, _)
RECURSIVE BindArguments(_, _, _, _, _)

RECURSIVE ProgramLoop_KeepFirst(_, _, _, _)
\* ProgramLoop with a slip: once a child has been evaluated its result is kept,
\* and later children do not replace it
ProgramLoop_KeepFirst(children, i, result, st) ==
    IF i > Len(children) THEN Ret(result, st)
    ELSE IF children[i].kind \in
              {"FunctionDefine", "Expression", "VariableDefine", "String", "Number", "Bool"}
         THEN Bind(exec(children[i], st), LAMBDA r :
                 IF r.res.tag = "Panic" THEN r
                 ELSE ProgramLoop_KeepFirst(children, i + 1, IF i = 1 THEN r.res ELSE result, r.st))
         ELSE Ret(Panic("unreachable"), st)

\* interpreter.rs 48-61: the loop over the children of a Program
ProgramLoop(children, i, result, st) ==
    IF i > Len(children) THEN Ret(result, st)
    ELSE IF children[i].kind \in
              {"FunctionDefine", "Expression", "VariableDefine", "String", "Number", "Bool"}
         THEN Bind(exec(children[i], st), LAMBDA r :
                 IF r.res.tag = "Panic" THEN r
                 ELSE ProgramLoop(children, i + 1, r.res, r.st))
         ELSE Ret(Panic("unreachable"), st)

\* Node::Program
ExecProgram(node, st) == ProgramLoop(node.children, 1, Ok(Value_Bool(TRUE)), st)

\* i32 / i32 for a divisor other than 0 and a quotient in range: the quotient
\* rounded toward zero (\div rounds down)
DivTrunc(lhs, rhs) ==
    LET q == lhs \div rhs
    IN IF (lhs < 0) = (rhs < 0) THEN q
       ELSE IF (q + 1) * rhs = lhs + rhs THEN q
       ELSE q + 1

\* whether lhs + rhs leaves the range of i32, and the sum modulo 2^32
AddOverflows(lhs, rhs) ==
    \/ rhs > 0 /\ lhs > I32_MAX - rhs
    \/ rhs < 0 /\ lhs < I32_MIN - rhs
WrappingAdd(lhs, rhs) ==
    IF rhs > 0 /\ lhs > I32_MAX - rhs THEN (lhs + I32_MIN) + (rhs + I32_MIN)
    ELSE IF rhs < 0 /\ lhs < I32_MIN - rhs THEN (lhs - I32_MIN) + (rhs - I32_MIN)
    ELSE lhs + rhs

\* whether lhs - rhs leaves the range of i32, and the difference modulo 2^32
SubOverflows(lhs, rhs) ==
    \/ rhs > 0 /\ lhs < I32_MIN + rhs
    \/ rhs < 0 /\ lhs > I32_MAX + rhs
WrappingSub(lhs, rhs) ==
    IF rhs > 0 /\ lhs < I32_MIN + rhs THEN (lhs - I32_MIN) - (rhs + I32_MIN)
    ELSE IF rhs < 0 /\ lhs > I32_MAX + rhs THEN (lhs + I32_MIN) - (rhs - I32_MIN)
    ELSE lhs - rhs

\* whether lhs * rhs leaves the range of i32
MulOverflows(lhs, rhs) ==
    IF lhs = 0 \/ rhs = 0 \/ lhs = 1 \/ rhs = 1 THEN FALSE
    ELSE IF lhs = I32_MIN \/ rhs = I32_MIN THEN TRUE
    ELSE IF lhs > 0 /\ rhs > 0 THEN lhs > I32_MAX \div rhs
    ELSE IF lhs < 0 /\ rhs < 0 THEN -lhs > I32_MAX \div (-rhs)
    ELSE IF lhs < 0 THEN lhs < (I32_MIN + rhs - 1) \div rhs
    ELSE rhs < (I32_MIN + lhs - 1) \div lhs

RECURSIVE WrappingMul(_, _)
\* lhs * rhs modulo 2^32, by doubling
WrappingMul(lhs, rhs) ==
    IF rhs = 0 THEN 0
    ELSE IF rhs = I32_MIN THEN (IF lhs % 2 = 1 THEN I32_MIN ELSE 0)
    ELSE IF rhs < 0 THEN WrappingSub(0, WrappingMul(lhs, -rhs))
    ELSE Bind(WrappingMul(WrappingAdd(lhs, lhs), rhs \div 2), LAMBDA half :
             IF rhs % 2 = 1 THEN WrappingAdd(lhs, half) ELSE half)

\* the outcome of an i32 + - *: an overflow panics in a build with overflow
\* checks and wraps otherwise
Arith(overflows, wrapped, st) ==
    IF overflows /\ st.checked THEN Panic("arithmetic overflow")
    ELSE Ok(Value_Number(wrapped))

\* MathOperation with a slip: sub subtracts the left operand from the right one
MathOperation_SwappedSub(name, lhs, rhs, st) ==
    CASE name = "add" -> Ret(Arith(AddOverflows(lhs, rhs), WrappingAdd(lhs, rhs), st), st)
      [] name = "sub" -> Ret(Arith(SubOverflows(rhs, lhs), WrappingSub(rhs, lhs), st), st)
      [] name = "mul" -> Ret(Arith(MulOverflows(lhs, rhs), WrappingMul(lhs, rhs), st), st)
      [] name = "div" ->
           IF rhs = 0 THEN Ret(Panic("attempt to divide by zero"), st)
           ELSE IF lhs = I32_MIN /\ rhs = -1
           THEN Ret(Panic("attempt to divide with overflow"), st)
           ELSE Ret(Ok(Value_Number(DivTrunc(lhs, rhs))), st)
      [] OTHER -> Ret(Err(Generic("Unsupported operation in Math Expression")), st)

\* interpreter.rs 79-103: the operation applied to the two operands
MathOperation(name, lhs, rhs, st) ==
    CASE name = "add" -> Ret(Arith(AddOverflows(lhs, rhs), WrappingAdd(lhs, rhs), st), st)
      [] name = "sub" -> Ret(Arith(SubOverflows(lhs, rhs), WrappingSub(lhs, rhs), st), st)
      [] name = "mul" -> Ret(Arith(MulOverflows(lhs, rhs), WrappingMul(lhs, rhs), st), st)
      [] name = "div" ->
           IF rhs = 0 THEN Ret(Panic("attempt to divide by zero"), st)
           ELSE IF lhs = I32_MIN /\ rhs = -1
           THEN Ret(Panic("attempt to divide with overflow"), st)
           ELSE Ret(Ok(Value_Number(DivTrunc(lhs, rhs))), st)
      [] OTHER -> Ret(Err(Generic("Unsupported operation in Math Expression")), st)

\* Node::MathExpression
ExecMathExpression(node, st) ==
    IF Len(node.children) # 2
    THEN Ret(Err(Generic("MathExpression must have exactly two children")), st)
    ELSE
    Bind(exec(node.children[1], st), LAMBDA l :
        IF l.res.tag # "Ok" THEN l ELSE
        Bind(exec(node.children[2], l.st), LAMBDA r :
            IF r.res.tag # "Ok" THEN r ELSE
            IF l.res.val.t = "Number" /\ r.res.val.t = "Number"
            THEN MathOperation(node.name, l.res.val.n, r.res.val.n, r.st)
            ELSE Ret(Err(Generic("MathExpression operands must be numbers")), r.st)))

\* interpreter.rs 142-156: the loop over params.iter().zip(children.iter())
BindArguments(params, children, i, new_frame, st) ==
    IF i > Len(params) \/ i > Len(children) THEN [res |-> NoRes, st |-> st, frame |-> new_frame]
    ELSE IF params[i].kind = "Identifier"
    THEN Bind(exec(children[i], st), LAMBDA a :
             IF a.res.tag # "Ok" THEN [res |-> a.res, st |-> a.st, frame |-> new_frame]
             ELSE Bind(MapInsert(new_frame, from_utf8_lossy(params[i].name), a.res.val),
                       LAMBDA inserted : BindArguments(params, children, i + 1, inserted, a.st)))
    ELSE [res |-> Err(Generic("The parameter in the function's definition is not an identifier")),
          st |-> st, frame |-> new_frame]

\* CallBody with a slip: the frame is popped only when the body succeeds
\* (the body's error returned with `?` before the pop)
CallBody_LeakOnErr(func_body, new_frame, st) ==
    Bind(exec(func_body, [st EXCEPT !.stack = Append(@, new_frame)]), LAMBDA result :
        IF result.res.tag # "Ok" THEN result
        ELSE Ret(result.res, [result.st EXCEPT !.stack = ButLast(@)]))

\* CallBody with a slip: on return the callee's bindings are written into the
\* caller's frame
CallBody_MergeFrame(func_body, new_frame, st) ==
    Bind(exec(func_body, [st EXCEPT !.stack = Append(@, new_frame)]), LAMBDA result :
        IF result.res.tag = "Panic" THEN result
        ELSE LET callee == Last(result.st.stack)
                 popped == ButLast(result.st.stack)
             IN Ret(result.res,
                    [result.st EXCEPT !.stack =
                        [popped EXCEPT ![Len(popped)] =
                            [x \in (DOMAIN @) \cup (DOMAIN callee) |->
                                IF x \in DOMAIN callee THEN callee[x] ELSE @[x]]]]))

\* interpreter.rs 163-171: push the frame, run the body, pop the frame
CallBody(func_body, new_frame, st) ==
    Bind(exec(func_body, [st EXCEPT !.stack = Append(@, new_frame)]), LAMBDA result :
        IF result.res.tag = "Panic" THEN result
        ELSE Ret(result.res, [result.st EXCEPT !.stack = ButLast(@)]))

\* interpreter.rs 131-137: the error of a call with the wrong number of arguments
ArityError(expected, got) ==
    Generic("Expected a total of " \o ToString(expected) \o " arguments, instead got only "
            \o ToString(got) \o " arguments")

\* CallFunction with a slip: no check of the number of arguments, so zip drops
\* the arguments or the parameters in excess
CallFunction_NoArityCheck(node, st, func_args, func_body) ==
    IF func_args.kind # "FunctionArguments"
    THEN Ret(Err(Generic("Function arguments were not provided")), st)
    ELSE
    Bind(BindArguments(func_args.children, node.children, 1, EmptyMap, st), LAMBDA bound :
        IF bound.res.tag # "None" THEN Ret(bound.res, bound.st)
        ELSE CallBody(func_body, bound.frame, bound.st))

\* CallFunction with a slip: the frame is pushed before the arguments are
\* evaluated, and filled with the bindings afterwards
CallFunction_PushFirst(node, st, func_args, func_body) ==
    IF func_args.kind # "FunctionArguments"
    THEN Ret(Err(Generic("Function arguments were not provided")), st)
    ELSE
    LET params == func_args.children IN
    IF Len(params) # Len(node.children)
    THEN Ret(Err(ArityError(Len(params), Len(node.children))), st)
    ELSE
    Bind(BindArguments(params, node.children, 1, EmptyMap,
                       [st EXCEPT !.stack = Append(@, EmptyMap)]), LAMBDA bound :
        IF bound.res.tag # "None"
        THEN Ret(bound.res, [bound.st EXCEPT !.stack = ButLast(@)])
        ELSE CallBody(func_body, bound.frame, [bound.st EXCEPT !.stack = ButLast(@)]))

\* interpreter.rs 124-172: the call of a function found in the table
CallFunction(node, st, func_args, func_body) ==
    IF func_args.kind # "FunctionArguments"
    THEN Ret(Err(Generic("Function arguments were not provided")), st)
    ELSE
    LET params == func_args.children IN
    IF Len(params) # Len(node.children)
    THEN Ret(Err(ArityError(Len(params), Len(node.children))), st)
    ELSE
    Bind(BindArguments(params, node.children, 1, EmptyMap, st), LAMBDA bound :
        IF bound.res.tag # "None" THEN Ret(bound.res, bound.st)
        ELSE CallBody(func_body, bound.frame, bound.st))

\* ExecFunctionCall with a slip: the first argument is evaluated before the
\* name is looked up
ExecFunctionCall_ArgumentFirst(node, st) ==
    LET function_name == from_utf8_lossy(node.name) IN
    Bind(IF Len(node.children) > 0 THEN exec(node.children[1], st) ELSE Ret(NoRes, st),
         LAMBDA first :
            IF first.res.tag = "Panic" THEN first ELSE
            IF function_name \notin DOMAIN st.functions
            THEN Ret(Err(UndefinedFunction), first.st)
            ELSE CallFunction(node, first.st, st.functions[function_name].args,
                              st.functions[function_name].body))

\* Node::FunctionCall
ExecFunctionCall(node, st) ==
    LET function_name == from_utf8_lossy(node.name) IN
    IF function_name \notin DOMAIN st.functions THEN Ret(Err(UndefinedFunction), st)
    ELSE CallFunction(node, st, st.functions[function_name].args,
                      st.functions[function_name].body)

\* ExecFunctionDefine with a slip: a name the table already holds keeps its entry
ExecFunctionDefine_KeepExisting(node, st) ==
    IF Len(node.children) < 1 THEN Ret(Panic("index out of bounds"), st) ELSE
    IF node.children[1].kind # "FunctionArguments"
    THEN Ret(Err(Generic("Invalid function arguments")), st) ELSE
    IF Len(node.children) < 2 THEN Ret(Panic("index out of bounds"), st) ELSE
    IF node.children[2].kind # "FunctionStatements"
    THEN Ret(Err(Generic("Invalid function statements")), st) ELSE
    LET function_arguments == Node_FunctionArguments(node.children[1].children)
        function_statements == Node_FunctionStatements(node.children[2].children)
        function_name == from_utf8_lossy(node.name)
    IN Ret(Ok(Value_Bool(TRUE)),
           IF function_name \in DOMAIN st.functions THEN st
           ELSE [st EXCEPT !.functions =
                    MapInsert(@, function_name,
                              [args |-> function_arguments, body |-> function_statements])])

\* Node::FunctionDefine
ExecFunctionDefine(node, st) ==
    IF Len(node.children) < 1 THEN Ret(Panic("index out of bounds"), st) ELSE
    IF node.children[1].kind # "FunctionArguments"
    THEN Ret(Err(Generic("Invalid function arguments")), st) ELSE
    IF Len(node.children) < 2 THEN Ret(Panic("index out of bounds"), st) ELSE
    IF node.children[2].kind # "FunctionStatements"
    THEN Ret(Err(Generic("Invalid function statements")), st) ELSE
    LET function_arguments == Node_FunctionArguments(node.children[1].children)
        function_statements == Node_FunctionStatements(node.children[2].children)
        function_name == from_utf8_lossy(node.name)
    IN Ret(Ok(Value_Bool(TRUE)),
           [st EXCEPT !.functions =
               MapInsert(@, function_name,
                         [args |-> function_arguments, body |-> function_statements])])

\* Node::FunctionReturn
ExecFunctionReturn(node, st) ==
    IF Len(node.children) < 1 THEN Ret(Panic("index out of bounds"), st)
    ELSE exec(node.children[1], st)

RECURSIVE FindInFrames(_, _, _)
\* the innermost of the frames 1..i that binds name, or 0
FindInFrames(frames, i, name) ==
    IF i = 0 THEN 0
    ELSE IF name \in DOMAIN frames[i] THEN i
    ELSE FindInFrames(frames, i - 1, name)

\* ExecIdentifier with a slip: a name the current frame does not bind is looked
\* up in the frames below it
ExecIdentifier_AnyFrame(node, st) ==
    IF ~from_utf8_ok(node.name)
    THEN Ret(Err(Generic("Wrong sequence present in the identifier.")), st)
    ELSE LET f == FindInFrames(st.stack, Len(st.stack), node.name)
         IN IF f > 0 THEN Ret(Ok(st.stack[f][node.name]), st)
            ELSE Ret(Err(UndefinedFunction), st)

\* Node::Identifier
ExecIdentifier(node, st) ==
    IF ~from_utf8_ok(node.name)
    THEN Ret(Err(Generic("Wrong sequence present in the identifier.")), st)
    ELSE IF Len(st.stack) > 0
    THEN LET frame == Last(st.stack)
         IN IF node.name \in DOMAIN frame THEN Ret(Ok(frame[node.name]), st)
            ELSE Ret(Err(UndefinedFunction), st)
    ELSE Ret(Err(UndefinedFunction), st)

\* Node::Statement
ExecStatement(node, st) ==
    IF Len(node.children) < 1 THEN Ret(Panic("index out of bounds"), st)
    ELSE IF node.children[1].kind \in {"VariableDefine", "FunctionReturn"}
    THEN exec(node.children[1], st)
    ELSE Ret(Err(Generic("The expression is undefined")), st)

\* ExecVariableDefine with a slip: a name the frame already binds keeps its value
ExecVariableDefine_KeepExisting(node, st) ==
    IF Len(node.children) # 2
    THEN Ret(Err(Generic("VariableDefine must have exactly two children")), st) ELSE
    LET identifier_node == node.children[1]
        value_node == node.children[2]
    IN
    IF identifier_node.kind # "Identifier"
    THEN Ret(Err(Generic("The first child of VariableDefine must be an identifier.")), st) ELSE
    IF ~from_utf8_ok(identifier_node.name)
    THEN Ret(Err(Generic("There are invalid characters in the variable name.")), st) ELSE
    LET variable_name == identifier_node.name IN
    Bind(exec(value_node, st), LAMBDA v :
        IF v.res.tag # "Ok" THEN v ELSE
        IF Len(v.st.stack) > 0
        THEN Ret(Ok(v.res.val),
                 IF variable_name \in DOMAIN Last(v.st.stack) THEN v.st
                 ELSE [v.st EXCEPT !.stack[Len(v.st.stack)] =
                                      MapInsert(@, variable_name, v.res.val)])
        ELSE Ret(Err(Generic("There is no active frame available to define variable.")), v.st))

\* Node::VariableDefine
ExecVariableDefine(node, st) ==
    IF Len(node.children) # 2
    THEN Ret(Err(Generic("VariableDefine must have exactly two children")), st) ELSE
    LET identifier_node == node.children[1]
        value_node == node.children[2]
    IN
    IF identifier_node.kind # "Identifier"
    THEN Ret(Err(Generic("The first child of VariableDefine must be an identifier.")), st) ELSE
    IF ~from_utf8_ok(identifier_node.name)
    THEN Ret(Err(Generic("There are invalid characters in the variable name.")), st) ELSE
    LET variable_name == identifier_node.name IN
    Bind(exec(value_node, st), LAMBDA v :
        IF v.res.tag # "Ok" THEN v ELSE
        IF Len(v.st.stack) > 0
        THEN Ret(Ok(v.res.val),
                 [v.st EXCEPT !.stack[Len(v.st.stack)] = MapInsert(@, variable_name, v.res.val)])
        ELSE Ret(Err(Generic("There is no active frame available to define variable.")), v.st))

\* Node::Expression
ExecExpression(node, st) ==
    IF Len(node.children) < 1 THEN Ret(Panic("index out of bounds"), st)
    ELSE exec(node.children[1], st)

\* the arms of the match in Interpreter::exec
Dispatch(node, st) ==
    CASE node.kind = "Program" -> ExecProgram(node, st)
      [] node.kind = "MathExpression" -> ExecMathExpression(node, st)
      [] node.kind = "FunctionCall" -> ExecFunctionCall(node, st)
      [] node.kind = "FunctionDefine" -> ExecFunctionDefine(node, st)
      [] node.kind = "FunctionReturn" -> ExecFunctionReturn(node, st)
      [] node.kind = "Identifier" -> ExecIdentifier(node, st)
      [] node.kind = "Statement" -> ExecStatement(node, st)
      [] node.kind = "VariableDefine" -> ExecVariableDefine(node, st)
      [] node.kind = "Expression" -> ExecExpression(node, st)
      [] node.kind = "Number" -> Ret(Ok(Value_Number(node.num)), st)
      [] node.kind = "String" -> Ret(Ok(Value_String(node.str)), st)
      [] node.kind = "Bool" -> Ret(Ok(Value_Bool(node.bool)), st)
      [] OTHER -> Ret(Err(Generic("No supported node type: " \o node.kind)), st)

\* Interpreter::exec, with its entry and its return recorded in the trace
exec(node, st) ==
    Bind([st EXCEPT !.lvl = @ + 1], LAMBDA entered :
    Bind([entered EXCEPT !.trace = Append(@, Event("enter", node, NoRes, entered))],
         LAMBDA inside :
    Bind(Dispatch(node, inside), LAMBDA r :
        IF r.res.tag = "Panic" THEN r
        ELSE Ret(r.res, [r.st EXCEPT !.trace = Append(@, Event("exit", node, r.res, r.st)),
                                     !.lvl = @ - 1]))))

\* Interpreter::start_main
start_main(args, st) == exec(Node_FunctionCall("main", args), st)

(***************************************************************************)
(* Inputs.  Sources are token streams for program texts (those of          *)
(* tests/interpreter.rs and a few more); Trees are nodes handed to exec    *)
(* directly, built the way the evaluator reads them (parameters are        *)
(* Identifier nodes, the children of a call are its argument expressions). *)
(***************************************************************************)
Alpha(s) == Tok("Alpha", s)
Digits(s, ds) == TokDigit(s, ds)
T_fn == Tok("Fn", "fn")
T_let == Tok("Let", "let")
T_return == Tok("Return", "return")
T_lp == Tok("LeftParen", "(")
T_rp == Tok("RightParen", ")")
T_lc == Tok("LeftCurly", "{")
T_rc == Tok("RightCurly", "}")
T_semi == Tok("Semicolon", ";")
T_comma == Tok("Comma", ",")
T_plus == Tok("Plus", "+")
T_dash == Tok("Dash", "-")
T_eq == Tok("Equal", "=")

\* fn main(){return foo();} fn foo(){return 5;}
Src_define_function ==
    <<T_fn, Alpha("main"), T_lp, T_rp, T_lc, T_return, Alpha("foo"), T_lp, T_rp, T_semi, T_rc,
      T_fn, Alpha("foo"), T_lp, T_rp, T_lc, T_return, Digits("5", <<5>>), T_semi, T_rc>>

\* fn main(){return foo();} fn foo(){let x = 5; return x;}
Src_define_function_more_statement ==
    <<T_fn, Alpha("main"), T_lp, T_rp, T_lc, T_return, Alpha("foo"), T_lp, T_rp, T_semi, T_rc,
      T_fn, Alpha("foo"), T_lp, T_rp, T_lc, T_let, Alpha("x"), T_eq, Digits("5", <<5>>), T_semi,
      T_return, Alpha("x"), T_semi, T_rc>>

\* fn main(){return foo(1,2);} fn foo(a,b){return a+b;}
Src_define_function_args ==
    <<T_fn, Alpha("main"), T_lp, T_rp, T_lc, T_return, Alpha("foo"), T_lp,
      Digits("1", <<1>>), T_comma, Digits("2", <<2>>), T_rp, T_semi, T_rc,
      T_fn, Alpha("foo"), T_lp, Alpha("a"), T_comma, Alpha("b"), T_rp, T_lc,
      T_return, Alpha("a"), T_plus, Alpha("b"), T_semi, T_rc>>

\* fn main(){return 5;}
Src_main_only ==
    <<T_fn, Alpha("main"), T_lp, T_rp, T_lc, T_return, Digits("5", <<5>>), T_semi, T_rc>>

\* fn foo(a){return a;} foo(1)
Src_one_arg ==
    <<T_fn, Alpha("foo"), T_lp, Alpha("a"), T_rp, T_lc, T_return, Alpha("a"), T_semi, T_rc,
      Alpha("foo"), T_lp, Digits("1", <<1>>), T_rp>>

\* fn foo(a,b){return a+b;} foo(1,2)
Src_call_two_args ==
    <<T_fn, Alpha("foo"), T_lp, Alpha("a"), T_comma, Alpha("b"), T_rp, T_lc,
      T_return, Alpha("a"), T_plus, Alpha("b"), T_semi, T_rc,
      Alpha("foo"), T_lp, Digits("1", <<1>>), T_comma, Digits("2", <<2>>), T_rp>>

\* let x = 5; let x = x + 1;
Src_identifier_redefinition ==
    <<T_let, Alpha("x"), T_eq, Digits("5", <<5>>), T_semi,
      T_let, Alpha("x"), T_eq, Alpha("x"), T_plus, Digits("1", <<1>>), T_semi>>

\* let x = 123;
Src_variable_define == <<T_let, Alpha("x"), T_eq, Digits("123", <<1, 2, 3>>), T_semi>>

\* x
Src_identifier == <<Alpha("x")>>

\* foo()
Src_function_call == <<Alpha("foo"), T_lp, T_rp>>

\* foo(a,b,c)
Src_function_call_more_args ==
    <<Alpha("foo"), T_lp, Alpha("a"), T_comma, Alpha("b"), T_comma, Alpha("c"), T_rp>>

\* 1 + 1
Src_math == <<Digits("1", <<1>>), T_plus, Digits("1", <<1>>)>>

\* foo() 5
Src_call_then_number == <<Alpha("foo"), T_lp, T_rp, Digits("5", <<5>>)>>

\* return 5;
Src_return == <<T_return, Digits("5", <<5>>), T_semi>>

\* 1 - 1
Src_math_subtraction == <<Digits("1", <<1>>), T_dash, Digits("1", <<1>>)>>

\* 1 + 2 + 3
Src_three_operands ==
    <<Digits("1", <<1>>), T_plus, Digits("2", <<2>>), T_plus, Digits("3", <<3>>)>>

\* 5;
Src_expression_semicolon == <<Digits("5", <<5>>), T_semi>>

\* fn main(){return main();}
Src_recursive ==
    <<T_fn, Alpha("main"), T_lp, T_rp, T_lc, T_return, Alpha("main"), T_lp, T_rp, T_semi, T_rc>>

Sources ==
    {Src_define_function, Src_define_function_more_statement, Src_define_function_args,
     Src_main_only, Src_one_arg, Src_call_two_args, Src_identifier_redefinition, Src_variable_define,
     Src_identifier, Src_function_call, Src_function_call_more_args, Src_math,
     Src_call_then_number, Src_return, Src_math_subtraction, Src_three_operands,
     Src_expression_semicolon, Src_recursive}

\* fn f(a) { return a; } with the parameter as an Identifier node
Tree_define_f ==
    Node_FunctionDefine("f", <<Node_FunctionArguments(<<Node_Identifier("a")>>),
        Node_FunctionStatements(<<Node_FunctionReturn(<<Node_Expression(<<Node_Identifier("a")>>)>>)>>)>>)

\* fn g(a, b) { let y = a; return y; }
Tree_define_g ==
    Node_FunctionDefine("g",
        <<Node_FunctionArguments(<<Node_Identifier("a"), Node_Identifier("b")>>),
          Node_FunctionStatements(
            <<Node_VariableDefine(<<Node_Identifier("y"), Node_Expression(<<Node_Identifier("a")>>)>>),
              Node_FunctionReturn(<<Node_Expression(<<Node_Identifier("y")>>)>>)>>)>>)

\* a function whose name and parameter are the byte 0xFF
Tree_define_invalid_name ==
    Node_FunctionDefine("#FF", <<Node_FunctionArguments(<<Node_Identifier("#FF")>>),
        Node_FunctionStatements(<<Node_FunctionReturn(<<Node_Expression(<<Node_Number(0)>>)>>)>>)>>)

\* fn f() { return 2; }: another definition of f
Tree_redefine_f ==
    Node_FunctionDefine("f", <<Node_FunctionArguments(<<>>),
        Node_FunctionStatements(<<Node_FunctionReturn(<<Node_Expression(<<Node_Number(2)>>)>>)>>)>>)

\* FunctionDefine nodes whose first or second child is of another kind
Tree_define_no_arguments ==
    Node_FunctionDefine("g", <<Node_Number(1), Node_FunctionStatements(<<>>)>>)
Tree_define_no_statements ==
    Node_FunctionDefine("f", <<Node_FunctionArguments(<<>>), Node_Number(1)>>)

Arg_1 == Node_Expression(<<Node_Number(1)>>)
Arg_x == Node_Expression(<<Node_Identifier("x")>>)
Arg_call_f == Node_Expression(<<Node_FunctionCall("f", <<Arg_1>>)>>)

ArgLists == {<<>>, <<Arg_1>>, <<Arg_x>>, <<Arg_1, Arg_x>>, <<Arg_x, Arg_1>>, <<Arg_call_f>>}

Let_x_7 == Node_VariableDefine(<<Node_Identifier("x"), Node_Expression(<<Node_Number(7)>>)>>)
Let_a_true == Node_VariableDefine(<<Node_Identifier("a"), Node_Expression(<<Node_Bool(TRUE)>>)>>)
Let_bad == Node_VariableDefine(<<Node_Identifier("#FF"), Node_Expression(<<Node_Number(1)>>)>>)

\* MathExpression nodes: the four operators and a tag that is none of them, over
\* pairs of operands that are numbers (in range, overflowing, a zero divisor),
\* a Bool, a String, a bound-or-not identifier
MathOps == {"add", "sub", "mul", "div", "pow"}

OperandPairs ==
    {<<Node_Number(6), Node_Number(3)>>, <<Node_Number(7), Node_Number(0)>>,
     <<Node_Number(-7), Node_Number(2)>>, <<Node_Number(I32_MAX), Node_Number(1)>>,
     <<Node_Number(I32_MIN), Node_Number(1)>>, <<Node_Number(I32_MIN), Node_Number(-1)>>,
     <<Node_Bool(TRUE), Node_Number(1)>>, <<Node_Number(1), Node_String("s")>>,
     <<Node_Identifier("x"), Node_Number(1)>>, <<Node_Number(1), Node_Identifier("nope")>>,
     <<Node_Identifier("nope"), Node_Bool(TRUE)>>}

MathTrees ==
    {Node_MathExpression(o, pair) : o \in MathOps, pair \in OperandPairs}
    \cup {Node_MathExpression("add", <<Node_Number(1)>>)}

Trees ==
    {Tree_define_f, Tree_define_g, Tree_define_invalid_name,
     Tree_redefine_f, Tree_define_no_arguments, Tree_define_no_statements,
     Node_FunctionCall("#FF", <<Arg_1>>), Let_x_7, Let_a_true, Let_bad,
     Node_Identifier("x"), Node_Identifier("a"), Node_Identifier("#FF"),
     Node_Program(<<Tree_define_f, Let_x_7, Node_Expression(<<Node_FunctionCall("f", <<Arg_x>>)>>),
                    Node_Expression(<<Node_Identifier("a")>>)>>),
     Node_Program(<<Node_Expression(<<Node_Identifier("x")>>), Let_x_7>>),
     Node_Program(<<>>)}
    \cup {Node_FunctionCall(n, args) : n \in {"f", "g", "nope"}, args \in ArgLists}
    \cup MathTrees

MainArgs == {<<>>, <<Arg_1>>}

(***************************************************************************)
(* The state: one Interpreter and the history of the calls made on it.     *)
(***************************************************************************)
VARIABLES
    functions,        \* Interpreter.functions
    stack,            \* Interpreter.stack
    overflow_checks,  \* the build: whether integer overflow panics
    op,               \* the last call made on the interpreter and its input
    result,           \* what that call returned
    trace,            \* the entries and returns of exec during that call
    calls             \* the number of calls made

vars == <<functions, stack, overflow_checks, op, result, trace, calls>>

NoOp == [name |-> "new", node |-> Node_Null, rest |-> <<>>, parsed |-> FALSE]

\* Interpreter::new: an empty function table and one empty global frame
Init ==
    /\ functions = EmptyMap
    /\ stack = <<EmptyMap>>
    /\ overflow_checks \in BOOLEAN
    /\ op = NoOp
    /\ result = NoRes
    /\ trace = <<>>
    /\ calls = 0

\* the interpreter as exec receives it
Self == [functions |-> functions, stack |-> stack, checked |-> overflow_checks,
         lvl |-> 0, trace |-> <<>>]

\* a panic aborts the process: no call follows it
CanCall == calls < MaxCalls /\ result.tag # "Panic"

Returned(r) ==
    /\ functions' = r.st.functions
    /\ stack' = r.st.stack
    /\ result' = r.res
    /\ trace' = r.st.trace
    /\ calls' = calls + 1
    /\ UNCHANGED overflow_checks

\* tests/interpreter.rs 15: assert_eq!(tokens.is_done(), true) fails: the caller
\* panics before it makes its call on the interpreter
AssertionFailed ==
    /\ result' = Panic("assertion failed: tokens.is_done()")
    /\ trace' = <<>>
    /\ calls' = calls + 1
    /\ UNCHANGED <<functions, stack, overflow_checks>>

\* tests/interpreter.rs 12-17: program(lex(text)); when it returns Ok((tokens, tree)),
\* the assertion that no token is left, then exec of the tree
ExecSource(tokens) ==
    /\ CanCall
    /\ \E parsed \in {program(tokens)} :
          /\ parsed.st = "Ok"
          /\ op' = [name |-> "exec", node |-> parsed.out, rest |-> parsed.rest,
                    parsed |-> TRUE]
          /\ IF parsed.rest = <<>>
             THEN \E r \in {exec(parsed.out, Self)} : Returned(r)
             ELSE AssertionFailed

\* Interpreter::exec on a tree built by the caller
ExecTree(node) ==
    /\ CanCall
    /\ op' = [name |-> "exec", node |-> node, rest |-> <<>>, parsed |-> FALSE]
    /\ \E r \in {exec(node, Self)} : Returned(r)

\* Interpreter::start_main
StartMain(args) ==
    /\ CanCall
    /\ op' = [name |-> "start_main", node |-> Node_FunctionCall("main", args), rest |-> <<>>,
              parsed |-> FALSE]
    /\ \E r \in {start_main(args, Self)} : Returned(r)

Next ==
    \/ \E tokens \in Sources : ExecSource(tokens)
    \/ \E node \in Trees : ExecTree(node)
    \/ \E args \in MainArgs : StartMain(args)

Spec == Init /\ [][Next]_vars

(***************************************************************************)
(* Reading the trace.  The events of one evaluation of exec are its enter  *)
(* event, at index i, and its exit event, the first later exit at the same *)
(* level; an evaluation that panics has no exit.                           *)
(***************************************************************************)
Enters(kind) == {i \in 1..Len(trace) : trace[i].ev = "enter" /\ trace[i].node.kind = kind}
ExitsOf(i) == {j \in (i + 1)..Len(trace) : trace[j].ev = "exit" /\ trace[j].lvl = trace[i].lvl}
Returns(i) == ExitsOf(i) # {}
ExitOf(i) == CHOOSE j \in ExitsOf(i) : \A k \in ExitsOf(i) : j <= k
\* the evaluations exec(i) makes itself: their enter and their exit events
ChildEnters(i) ==
    {k \in (i + 1)..(ExitOf(i) - 1) : trace[k].ev = "enter" /\ trace[k].lvl = trace[i].lvl + 1}
ChildExits(i) ==
    {k \in (i + 1)..(ExitOf(i) - 1) : trace[k].ev = "exit" /\ trace[k].lvl = trace[i].lvl + 1}

\* the function table a fresh interpreter holds after exec of the parsed text
TableOf(tokens) ==
    exec(program(tokens).out,
         [functions |-> EmptyMap, stack |-> <<EmptyMap>>, checked |-> TRUE,
          lvl |-> 0, trace |-> <<>>]).st.functions
\* the interpreter holds the definitions of the text, as exec registered them
Loaded(tokens) ==
    \A n \in DOMAIN TableOf(tokens) : n \in DOMAIN functions /\ functions[n] = TableOf(tokens)[n]
\* the table at the start of the last call (the first event of its trace)
Before == trace[1]

\* C1: with the zero-parameter functions of `fn main(){return foo();} fn foo(){return 5;}`
\* (or foo's body `let x = 5; return x;`) registered by exec of the parsed program,
\* start_main with no arguments returns Ok(Number(5)).
C1_ZeroParameterCallReturnsBody ==
    (/\ op.name = "start_main"
     /\ op.node.children = <<>>
     /\ \/ Loaded(Src_define_function)
        \/ Loaded(Src_define_function_more_statement))
    => result = Ok(Value_Number(5))

\* C2: with `fn foo(a,b){return a+b;}` defined through the parser, the parsed call
\* foo(1,2) returns Ok(Number(3)), from main and at top level.
C2_ParsedCallBindsArguments ==
    /\ (op.name = "start_main" /\ op.node.children = <<>> /\ Loaded(Src_define_function_args))
       => result = Ok(Value_Number(3))
    /\ (op.name = "exec" /\ op.node = program(Src_call_two_args).out)
       => result = Ok(Value_Number(3))

\* C3: every evaluation of a FunctionCall that returns, with Ok or with Err, leaves
\* the call stack as deep as it found it.
C3_CallStackDepthRestored ==
    \A i \in Enters("FunctionCall") :
        Returns(i) => Len(trace[ExitOf(i)].stack) = Len(trace[i].stack)

\* a call whose frame was pushed (its body was entered one frame deeper) and that
\* returned an error
C3_Witness ==
    \E i \in Enters("FunctionCall") :
        /\ Returns(i)
        /\ trace[ExitOf(i)].res.tag = "Err"
        /\ \E k \in ChildEnters(i) : Len(trace[k].stack) = Len(trace[i].stack) + 1

\* C4: when a child evaluation fails, the enclosing evaluation fails with the same
\* error and evaluates no further child.
C4_FirstErrorAborts ==
    \A i \in 1..Len(trace) :
        (trace[i].ev = "enter" /\ Returns(i)) =>
            \A k \in ChildExits(i) :
                trace[k].res.tag = "Err" =>
                    /\ trace[ExitOf(i)].res = trace[k].res
                    /\ \A m \in ChildEnters(i) : m < k

StateAt(j) ==
    [functions |-> trace[j].functions, stack |-> trace[j].stack,
     checked |-> overflow_checks, lvl |-> 0, trace |-> <<>>]

\* the evaluation of an Identifier returns at once and changes nothing
LookupIsPure(i) ==
    /\ i + 1 <= Len(trace)
    /\ trace[i + 1].ev = "exit"
    /\ trace[i + 1].lvl = trace[i].lvl
    /\ trace[i + 1].stack = trace[i].stack
    /\ trace[i + 1].functions = trace[i].functions

\* with one more (empty) frame pushed, as the call of a parameterless function
\* leaves the stack, no name of the frames below resolves
LowerFramesHidden ==
    \A f \in 1..Len(stack) : \A n \in DOMAIN stack[f] :
        ExecIdentifier(Node_Identifier(n), [Self EXCEPT !.stack = Append(stack, EmptyMap)])
            = Ret(Err(UndefinedFunction), [Self EXCEPT !.stack = Append(stack, EmptyMap)])

\* C6, as claimed: an Identifier evaluates to the value its name has in the top
\* frame when it is bound there and fails with UndefinedFunction in every other
\* case, also when a lower frame binds the name; the lookup changes nothing.
C6_IdentifierTopFrameOrUndefined ==
    /\ \A i \in Enters("Identifier") :
          LET n == trace[i].node.name
              top == Last(trace[i].stack)
          IN /\ LookupIsPure(i)
             /\ trace[i + 1].res = IF n \in DOMAIN top THEN Ok(top[n]) ELSE Err(UndefinedFunction)
    /\ LowerFramesHidden

\* C6, amended: the same for an Identifier whose bytes are valid UTF-8; an
\* Identifier whose bytes are not valid UTF-8 fails with a Generic error instead of
\* UndefinedFunction, and changes nothing either.
C6_IdentifierLookup ==
    /\ \A i \in Enters("Identifier") :
          LET n == trace[i].node.name
              top == Last(trace[i].stack)
          IN /\ LookupIsPure(i)
             /\ trace[i + 1].res =
                  IF ~from_utf8_ok(n)
                  THEN Err(Generic("Wrong sequence present in the identifier."))
                  ELSE IF n \in DOMAIN top THEN Ok(top[n]) ELSE Err(UndefinedFunction)
    /\ LowerFramesHidden

\* an Identifier was evaluated to the value the global frame binds it to
C6_Witness ==
    \E i \in Enters("Identifier") :
        /\ trace[i].node.name \in DOMAIN Last(trace[i].stack)
        /\ trace[i + 1].res.tag = "Ok"
        /\ trace[i].node.name \in DOMAIN stack[1]

\* the frame a call pushed: the top of the stack where its body was entered
PushedFrames(i) ==
    {Last(trace[k].stack) : k \in {c \in ChildEnters(i) :
                                      Len(trace[c].stack) = Len(trace[i].stack) + 1}}

C8_VariableDefineBinds ==
    /\ \A i \in Enters("VariableDefine") :
          (/\ Returns(i)
           /\ Len(trace[i].node.children) = 2
           /\ trace[i].node.children[1].kind = "Identifier")
          => \A k \in ChildExits(i) :
                trace[k].res.tag = "Ok" =>
                   LET j == ExitOf(i)
                       n == trace[i].node.children[1].name
                       v == trace[k].res.val
                   IN /\ trace[j].res = Ok(v)
                      /\ trace[i + 1].node = trace[i].node.children[2]
                      /\ trace[i + 1].stack = trace[i].stack
                      /\ trace[j].stack =
                           [trace[i].stack EXCEPT ![Len(trace[i].stack)] = MapInsert(@, n, v)]
                      /\ trace[j].functions = trace[i].functions
                      /\ ExecIdentifier(Node_Identifier(n), StateAt(j)).res = Ok(v)
    /\ (op.name = "exec" /\ op.node = program(Src_identifier_redefinition).out)
       => result = Ok(Value_Number(6))

\* `let x = 5; let x = x + 1;` was run and left x = 6 in the global frame
C8_Witness ==
    /\ op.name = "exec"
    /\ op.node = program(Src_identifier_redefinition).out
    /\ result = Ok(Value_Number(6))
    /\ "x" \in DOMAIN stack[1]
    /\ stack[1]["x"] = Value_Number(6)

\* the enter event of the m-th evaluation that exec(i) makes itself
NthChildEnter(i, m) ==
    CHOOSE k \in ChildEnters(i) : Cardinality({x \in ChildEnters(i) : x < k}) = m - 1

\* C9: a Program that returns has evaluated its children in declaration order,
\* each on the table and the stack its predecessor left, and returns the result
\* of the last one; what the children registered and bound is what the
\* interpreter holds afterwards, for the calls that follow.
C9_ProgramOrderAndLastValue ==
    /\ \A i \in Enters("Program") :
          Returns(i) =>
             LET j == ExitOf(i)
                 children == trace[i].node.children
             IN /\ Cardinality(ChildEnters(i)) = Len(children)
                /\ \A m \in 1..Len(children) :
                      LET e == NthChildEnter(i, m)
                      IN /\ trace[e].node = children[m]
                         /\ Returns(e)
                         /\ trace[e].stack = trace[e - 1].stack
                         /\ trace[e].functions = trace[e - 1].functions
                         /\ m = Len(children) =>
                               /\ ExitOf(e) = j - 1
                               /\ trace[j].res = trace[j - 1].res
                               /\ trace[j].stack = trace[j - 1].stack
                               /\ trace[j].functions = trace[j - 1].functions
    /\ (result.tag \in {"Ok", "Err"} /\ op.node.kind = "Program") =>
          /\ functions = Last(trace).functions
          /\ stack = Last(trace).stack

\* a Program of four children returned the error of its last child, after its
\* earlier children had registered f and bound x, and its third had called f
C9_Witness ==
    /\ op.node.kind = "Program"
    /\ Len(op.node.children) = 4
    /\ result = Err(UndefinedFunction)
    /\ "f" \in DOMAIN functions
    /\ "x" \in DOMAIN stack[1]
    /\ \E i \in Enters("FunctionCall") : PushedFrames(i) # {}

\* C10: a FunctionCall of a name the table does not hold fails with
\* UndefinedFunction at once, whatever its arguments: no argument is evaluated, no
\* frame is pushed, the table is unchanged; so does start_main without a main.
C10_UndefinedFunctionFails ==
    /\ \A i \in Enters("FunctionCall") :
          from_utf8_lossy(trace[i].node.name) \notin DOMAIN trace[i].functions =>
             /\ i + 1 <= Len(trace)
             /\ trace[i + 1].ev = "exit"
             /\ trace[i + 1].lvl = trace[i].lvl
             /\ trace[i + 1].res = Err(UndefinedFunction)
             /\ trace[i + 1].stack = trace[i].stack
             /\ trace[i + 1].functions = trace[i].functions
    /\ (op.name = "start_main" /\ "main" \notin DOMAIN Before.functions) =>
          /\ result = Err(UndefinedFunction)
          /\ functions = Before.functions
          /\ stack = Before.stack

\* start_main was called with an argument while no main was defined
C10_Witness ==
    /\ op.name = "start_main"
    /\ Len(op.node.children) > 0
    /\ "main" \notin DOMAIN Before.functions
    /\ result.tag = "Err"

\* the event at index k is the return of the evaluation entered at index i
ReturnsAt(i, k) ==
    /\ k <= Len(trace)
    /\ trace[k].ev = "exit"
    /\ trace[k].lvl = trace[i].lvl

\* the event at index k is the entry of the evaluation of node that exec(i) makes
EntersChildAt(i, k, node) ==
    /\ k <= Len(trace)
    /\ trace[k].ev = "enter"
    /\ trace[k].lvl = trace[i].lvl + 1
    /\ trace[k].node = node

UnsupportedOperation == Err(Generic("Unsupported operation in Math Expression"))

\* a MathExpression of two children entered at i: left is evaluated first; if it
\* fails the evaluation fails with its error and right is not evaluated; else
\* right is evaluated on what left left, and its error is the evaluation's; with
\* two values, add and sub of two Numbers whose result fits i32 return the sum
\* and the difference, and a String or Bool operand makes the evaluation fail
MathOperandsInOrder(i) ==
    LET node == trace[i].node
        le == i + 1
    IN /\ EntersChildAt(i, le, node.children[1])
       /\ trace[le].stack = trace[i].stack
       /\ Returns(le) =>
            LET lx == ExitOf(le)
                l == trace[lx].res
                re == lx + 1
            IN IF l.tag # "Ok" THEN ReturnsAt(i, lx + 1) /\ trace[lx + 1].res = l
               ELSE /\ EntersChildAt(i, re, node.children[2])
                    /\ trace[re].stack = trace[lx].stack
                    /\ Returns(re) =>
                         LET rx == ExitOf(re)
                             r == trace[rx].res
                         IN IF r.tag # "Ok" THEN ReturnsAt(i, rx + 1) /\ trace[rx + 1].res = r
                            ELSE IF l.val.t = "Number" /\ r.val.t = "Number"
                            THEN /\ (node.name = "add" /\ ~AddOverflows(l.val.n, r.val.n)) =>
                                       /\ ReturnsAt(i, rx + 1)
                                       /\ trace[rx + 1].res = Ok(Value_Number(l.val.n + r.val.n))
                                 /\ (node.name = "sub" /\ ~SubOverflows(l.val.n, r.val.n)) =>
                                       /\ ReturnsAt(i, rx + 1)
                                       /\ trace[rx + 1].res = Ok(Value_Number(l.val.n - r.val.n))
                            ELSE ReturnsAt(i, rx + 1) /\ trace[rx + 1].res.tag = "Err"

\* both operands of the MathExpression entered at i evaluated to Numbers
BothNumbers(i) ==
    \E lx, rx \in ChildExits(i) :
        /\ lx < rx
        /\ trace[lx].res.tag = "Ok" /\ trace[lx].res.val.t = "Number"
        /\ trace[rx].res.tag = "Ok" /\ trace[rx].res.val.t = "Number"

\* C11, as claimed: a MathExpression evaluates left and then right; add and sub of
\* two Numbers whose result fits i32 return the sum and the difference; a String
\* or Bool operand makes it fail; and a tag other than add, sub, mul, div makes it
\* fail with the unsupported-operation error, whatever the operands.
C11_MathExpression ==
    \A i \in Enters("MathExpression") :
        Len(trace[i].node.children) = 2 =>
            /\ MathOperandsInOrder(i)
            /\ trace[i].node.name \notin {"add", "sub", "mul", "div"} =>
                  /\ Returns(i)
                  /\ trace[ExitOf(i)].res = UnsupportedOperation

\* C11, amended: the same, but a tag other than add, sub, mul, div gives the
\* unsupported-operation error only when both operands evaluated to Numbers (the
\* tag is looked at after the operands: an operand that fails or is not a Number
\* gives its own error whatever the tag).
C11_MathExpressionOfNumbers ==
    \A i \in Enters("MathExpression") :
        Len(trace[i].node.children) = 2 =>
            /\ MathOperandsInOrder(i)
            /\ (trace[i].node.name \notin {"add", "sub", "mul", "div"} /\ Returns(i)) =>
                  (trace[ExitOf(i)].res = UnsupportedOperation <=> BothNumbers(i))

\* the parsed `1 - 1` returned Number(0)
C11_Witness ==
    /\ op.parsed
    /\ op.node = program(Src_math_subtraction).out
    /\ result = Ok(Value_Number(0))
    /\ \E i \in Enters("MathExpression") : trace[i].node.name = "sub" /\ BothNumbers(i)

\* the returns of the evaluations exec(i) made itself, whether or not exec(i)
\* returned
ChildExitsSoFar(i) ==
    {k \in (i + 1)..Len(trace) :
        /\ trace[k].ev = "exit"
        /\ trace[k].lvl = trace[i].lvl + 1
        /\ \A m \in (i + 1)..k : trace[m].lvl > trace[i].lvl}

\* the MathExpression entered at i divides a Number by a right operand that
\* evaluated to Number(0)
DividesByZero(i) ==
    /\ trace[i].node.name = "div"
    /\ \E lx, rx \in ChildExitsSoFar(i) :
          /\ lx < rx
          /\ trace[lx].res.tag = "Ok" /\ trace[lx].res.val.t = "Number"
          /\ trace[rx].res = Ok(Value_Number(0))

\* C12: a `div` whose right operand evaluates to Number(0) returns an error value:
\* the evaluation returns (no panic), its result is an Err, the stack and the
\* function table are what they were, and the interpreter takes further calls.
C12_DivideByZeroIsAnError ==
    \A i \in Enters("MathExpression") :
        DividesByZero(i) =>
            /\ result.tag # "Panic"
            /\ Returns(i)
            /\ trace[ExitOf(i)].res.tag = "Err"
            /\ trace[ExitOf(i)].stack = trace[i].stack
            /\ trace[ExitOf(i)].functions = trace[i].functions

\* C13: a FunctionDefine with a FunctionArguments and a FunctionStatements child
\* returns Bool(true) at once and leaves the table with the entry of its name (the
\* key is the name decoded as the table's String) set to that pair, whatever it
\* was, and every other entry and the stack as they were; with a child of another
\* kind it fails and changes nothing.  The table changes at no other step of any
\* evaluation, and is what the last step left when the call returns.
C13_FunctionDefineRegisters ==
    /\ \A i \in Enters("FunctionDefine") :
          Len(trace[i].node.children) >= 2 =>
             LET node == trace[i].node
                 key == from_utf8_lossy(node.name)
                 j == i + 1
             IN /\ ReturnsAt(i, j)
                /\ trace[j].stack = trace[i].stack
                /\ IF /\ node.children[1].kind = "FunctionArguments"
                      /\ node.children[2].kind = "FunctionStatements"
                   THEN /\ trace[j].res = Ok(Value_Bool(TRUE))
                        /\ DOMAIN trace[j].functions = (DOMAIN trace[i].functions) \cup {key}
                        /\ trace[j].functions[key] =
                              [args |-> node.children[1], body |-> node.children[2]]
                        /\ \A n \in (DOMAIN trace[i].functions) \ {key} :
                              trace[j].functions[n] = trace[i].functions[n]
                   ELSE /\ trace[j].res.tag = "Err"
                        /\ trace[j].functions = trace[i].functions
    /\ \A j \in 2..Len(trace) :
          trace[j].functions # trace[j - 1].functions =>
             /\ trace[j - 1].ev = "enter"
             /\ trace[j - 1].node.kind = "FunctionDefine"
             /\ ReturnsAt(j - 1, j)
    /\ (trace # <<>> /\ result.tag # "Panic") => functions = Last(trace).functions

\* a FunctionDefine replaced the different entry the table held for its name
C13_Witness ==
    \E i \in Enters("FunctionDefine") :
        LET key == from_utf8_lossy(trace[i].node.name)
        IN /\ key \in DOMAIN trace[i].functions
           /\ ReturnsAt(i, i + 1)
           /\ trace[i + 1].res = Ok(Value_Bool(TRUE))
           /\ trace[i + 1].functions[key] # trace[i].functions[key]
           /\ functions = trace[i + 1].functions

\* C14: a text of which program matches only a proper prefix is rejected by the
\* parse: program never returns Ok with a Program node and tokens left over.
C14_TrailingTokensRejected ==
    op.parsed => op.rest = <<>>

\* the evaluations a call makes itself: of its body (entered with one more frame
\* on the stack) and of its arguments
BodyEnters(i) == {k \in ChildEnters(i) : Len(trace[k].stack) = Len(trace[i].stack) + 1}
ArgumentEnters(i) == ChildEnters(i) \ BodyEnters(i)

\* C15: in a FunctionCall that returns, the arguments are evaluated in order, each
\* with the stack the call found (the caller's frame on top); the frame is pushed
\* only after every argument has returned Ok, and binds each parameter to the
\* value its argument had in the caller's frame; an argument that fails ends the
\* call with its error, with no later argument evaluated, no frame pushed and the
\* stack unchanged.
C15_ArgumentsBeforePush ==
    \A i \in Enters("FunctionCall") :
        Returns(i) =>
            LET children == trace[i].node.children
                args == ArgumentEnters(i)
            IN /\ \A k \in args :
                     /\ trace[k].stack = trace[i].stack
                     /\ trace[k].node = children[Cardinality({x \in args : x <= k})]
                     /\ Returns(k)
                     /\ trace[ExitOf(k)].res.tag # "Ok" =>
                           /\ BodyEnters(i) = {}
                           /\ \A x \in args : x <= k
                           /\ ExitOf(i) = ExitOf(k) + 1
                           /\ trace[ExitOf(i)].res = trace[ExitOf(k)].res
                           /\ trace[ExitOf(i)].stack = trace[i].stack
               /\ \A b \in BodyEnters(i) :
                     LET callee == trace[i].functions[from_utf8_lossy(trace[i].node.name)]
                         params == callee.args.children
                     IN /\ trace[b].node = callee.body
                        /\ Cardinality(args) = Len(children)
                        /\ ButLast(trace[b].stack) = trace[i].stack
                        /\ \A k \in args :
                              /\ ExitOf(k) < b
                              /\ trace[ExitOf(k)].res.tag = "Ok"
                              /\ LET m == Cardinality({x \in args : x <= k})
                                     name == from_utf8_lossy(params[m].name)
                                 IN /\ name \in DOMAIN Last(trace[b].stack)
                                    /\ (\A m2 \in (m + 1)..Len(params) :
                                            from_utf8_lossy(params[m2].name) # name)
                                       => Last(trace[b].stack)[name] = trace[ExitOf(k)].res.val

\* a call whose argument is an identifier bound in the caller's frame pushed a
\* frame that binds the parameter to the caller's value
C15_Witness ==
    \E i \in Enters("FunctionCall") :
        /\ Returns(i)
        /\ \E k \in ArgumentEnters(i) :
              /\ trace[k].node = Arg_x
              /\ "x" \in DOMAIN Last(trace[i].stack)
              /\ \E b \in BodyEnters(i) :
                    Value_Number(7) \in {Last(trace[b].stack)[n] : n \in DOMAIN Last(trace[b].stack)}

RECURSIVE CallsFunction(_, _)
\* node is or contains a FunctionCall of the table entry name
CallsFunction(node, name) ==
    \/ node.kind = "FunctionCall" /\ from_utf8_lossy(node.name) = name
    \/ \E c \in 1..Len(node.children) : CallsFunction(node.children[c], name)

\* the FunctionCall entered at i calls, with as many arguments as it has
\* parameters, a registered function whose body calls that function
CallsSelfRecursive(i) ==
    LET name == from_utf8_lossy(trace[i].node.name)
        table == trace[i].functions
    IN /\ name \in DOMAIN table
       /\ Len(table[name].args.children) = Len(trace[i].node.children)
       /\ CallsFunction(table[name].body, name)

\* C16: the evaluation of a call of a registered function whose body calls itself
\* never returns, neither a Value nor an error.
C16_SelfRecursionNeverReturns ==
    \A i \in Enters("FunctionCall") : CallsSelfRecursive(i) => ~Returns(i)

\* the kinds of child the Program arm of exec accepts
AcceptedTopLevel == {"FunctionDefine", "Expression", "VariableDefine", "String", "Number", "Bool"}

\* C17: the Program node of a text that program parses whole has only children of
\* the kinds the Program arm accepts, and its evaluation returns a Value or an
\* error: it never panics.
C17_ParsedProgramNeverPanics ==
    (op.parsed /\ op.rest = <<>>) =>
        /\ \A c \in 1..Len(op.node.children) : op.node.children[c].kind \in AcceptedTopLevel
        /\ result.tag \in {"Ok", "Err"}

====
